---- MODULE Spec2Model ----
(***************************************************************************)
(* Model of the raffle booklet generator (src/main.go): configuration      *)
(* validation, unique-number allocation by rejection sampling, ticket      *)
(* formatting, grid layout, border drawing on an RGBA canvas, and the      *)
(* page loop of GenerarTodos.                                              *)
(*                                                                         *)
(* Go ints are modelled as mathematical integers: every configuration the  *)
(* model draws is far from the 64-bit limits, so no operation wraps.       *)
(* Fonts are not modelled: loading one never fails the constructor and     *)
(* only glyph rasterisation (golang.org/x/image/font) depends on it; the   *)
(* text drawn on a canvas is recorded as the strings handed to the drawer. *)
(***************************************************************************)
EXTENDS Integers, Sequences, FiniteSets, TLC

VARIABLES
    config,          \* Config handed to NewGeneradorTalonarios
    pc,              \* position of the program
    err,             \* error returned by the constructor / GenerarTodos ("" = nil)
    numerosUsados,   \* g.numerosUsados (set of keys mapped to true)
    imagenBase,      \* g.imagenBase ("nil" or "cargada")
    digitosFormato,  \* g.digitosFormato
    i,               \* page index of the loop in GenerarTodos
    talonario,       \* the Talonario being built / rendered
    img,             \* canvas of the page being rendered
    layout,          \* locals of crearImagenTalonario (filas, anchoBoleta, ...)
    archivos,        \* files written by guardarImagen, in order
    emitidos,        \* history: numbers returned by generarNumeroAleatorio
    creados,         \* history: ids passed to crearTalonario
    renderizados,    \* history: ids of the talonarios rendered
    intentos,        \* history: ids for which guardarImagen was called
    args             \* arguments of a drawing primitive (drawing specification)

vars == <<config, pc, err, numerosUsados, imagenBase, digitosFormato, i,
          talonario, img, layout, archivos, emitidos, creados,
          renderizados, intentos, args>>

----------------------------------------------------------------------------
(* Bounds of the model *)

MaxRango    == 3   \* NumeroMaximo ranges up to NumeroMinimo + MaxRango
MaxBoletas  == 2   \* BoletasPorPagina in 0..MaxBoletas
MaxPaginas  == 2   \* CantidadPaginas in 0..MaxPaginas
MaxFila     == 2   \* BoletasPorFila in 0..MaxFila
MaxGrosor   == 2   \* AnchoLineas of the drawing specification in 0..MaxGrosor
CanvasAncho == 4   \* canvas width of the drawing specification
CanvasAlto  == 5   \* canvas height of the drawing specification

----------------------------------------------------------------------------
(* Go arithmetic and strings *)

Abs(n) == IF n < 0 THEN -n ELSE n

Min2(a, b) == IF a < b THEN a ELSE b

Max2(a, b) == IF a < b THEN b ELSE a

\* Go's integer division truncates toward zero (b # 0)
GoDiv(a, b) ==
    LET q == Abs(a) \div Abs(b)
    IN  IF (a < 0) # (b < 0) THEN -q ELSE q

\* Go's remainder has the sign of the dividend
GoMod(a, b) == a - b * GoDiv(a, b)

DigitChar == <<"0", "1", "2", "3", "4", "5", "6", "7", "8", "9">>

\* decimal digits of n >= 0, most significant first
RECURSIVE Digitos(_)
Digitos(n) ==
    IF n < 10 THEN <<DigitChar[n + 1]>>
    ELSE Digitos(n \div 10) \o <<DigitChar[(n % 10) + 1]>>

\* strconv.Itoa
Itoa(n) == IF n < 0 THEN <<"-">> \o Digitos(-n) ELSE Digitos(n)

Ceros(k) == [j \in 1..k |-> "0"]

\* fmt.Sprintf("%0<w>d", v): the zero flag pads the digits up to the width,
\* one less when a sign is printed; a longer number is never truncated
SprintfCeros(w, v) ==
    LET d    == Digitos(Abs(v))
        prec == IF v < 0 THEN w - 1 ELSE w
        pad  == IF prec > Len(d) THEN Ceros(prec - Len(d)) ELSE <<>>
    IN  (IF v < 0 THEN <<"-">> ELSE <<>>) \o pad \o d

----------------------------------------------------------------------------
(* Configuration validation and the formatter *)

ErrNumeros  == "no hay suficientes numeros"
ErrCantidad == "la cantidad de boletas y paginas debe ser mayor a 0"
ErrFila     == "el numero de boletas por fila debe ser mayor a 0"
ErrMargenes == "los margenes deben ser positivos o cero"
ErrImagen   == "error cargando imagen base"
ErrCarpeta  == "error creando carpeta de salida"
ErrGuardar  == "error guardando talonario"

ErroresValidacion == {ErrNumeros, ErrCantidad, ErrFila, ErrMargenes}

\* validarConfig with the capacity check on one page only (CantidadPaginas forgotten)
validarConfigSoloPagina(cfg) ==
    LET totalNumeros == cfg.NumeroMaximo - cfg.NumeroMinimo + 1
    IN  IF cfg.BoletasPorPagina > totalNumeros THEN ErrNumeros
        ELSE IF cfg.BoletasPorPagina <= 0 \/ cfg.CantidadPaginas <= 0 THEN ErrCantidad
        ELSE IF cfg.BoletasPorFila <= 0 THEN ErrFila
        ELSE IF cfg.MargenSuperior < 0 \/ cfg.MargenInferior < 0
                \/ cfg.MargenIzquierdo < 0 \/ cfg.MargenDerecho < 0 THEN ErrMargenes
        ELSE ""

\* validarConfig with the capacity check off by one (one number too few goes through)
validarConfigHolgada(cfg) ==
    LET totalNumeros      == cfg.NumeroMaximo - cfg.NumeroMinimo + 1
        numerosNecesarios == cfg.BoletasPorPagina * cfg.CantidadPaginas
    IN  IF numerosNecesarios > totalNumeros + 1 THEN ErrNumeros
        ELSE IF cfg.BoletasPorPagina <= 0 \/ cfg.CantidadPaginas <= 0 THEN ErrCantidad
        ELSE IF cfg.BoletasPorFila <= 0 THEN ErrFila
        ELSE IF cfg.MargenSuperior < 0 \/ cfg.MargenInferior < 0
                \/ cfg.MargenIzquierdo < 0 \/ cfg.MargenDerecho < 0 THEN ErrMargenes
        ELSE ""

\* validarConfig without the check of BoletasPorFila
validarConfigSinFila(cfg) ==
    LET totalNumeros      == cfg.NumeroMaximo - cfg.NumeroMinimo + 1
        numerosNecesarios == cfg.BoletasPorPagina * cfg.CantidadPaginas
    IN  IF numerosNecesarios > totalNumeros THEN ErrNumeros
        ELSE IF cfg.BoletasPorPagina <= 0 \/ cfg.CantidadPaginas <= 0 THEN ErrCantidad
        ELSE IF cfg.MargenSuperior < 0 \/ cfg.MargenInferior < 0
                \/ cfg.MargenIzquierdo < 0 \/ cfg.MargenDerecho < 0 THEN ErrMargenes
        ELSE ""

\* validarConfig: the error returned, "" for nil
validarConfig(cfg) ==
    LET totalNumeros      == cfg.NumeroMaximo - cfg.NumeroMinimo + 1
        numerosNecesarios == cfg.BoletasPorPagina * cfg.CantidadPaginas
    IN  IF numerosNecesarios > totalNumeros THEN ErrNumeros
        ELSE IF cfg.BoletasPorPagina <= 0 \/ cfg.CantidadPaginas <= 0 THEN ErrCantidad
        ELSE IF cfg.BoletasPorFila <= 0 THEN ErrFila
        ELSE IF cfg.MargenSuperior < 0 \/ cfg.MargenInferior < 0
                \/ cfg.MargenIzquierdo < 0 \/ cfg.MargenDerecho < 0 THEN ErrMargenes
        ELSE ""

\* gen.digitosFormato = len(strconv.Itoa(config.NumeroMaximo))
calcularDigitos(cfg) == Len(Itoa(cfg.NumeroMaximo))

\* formatearNumero: Sprintf of the format "%0<digitosFormato>d"
formatearNumero(digitos, n) == SprintfCeros(digitos, n)

----------------------------------------------------------------------------
(* The canvas: image.RGBA reduced to its rectangle, the colour of each of  *)
(* its pixels and the strings drawn on it                                  *)

\* image.Rect(0, 0, w, h): the rectangle is canonicalised (Min <= Max)
Rect(w, h) ==
    [minX |-> Min2(0, w), minY |-> Min2(0, h), maxX |-> Max2(0, w), maxY |-> Max2(0, h)]

Puntos(r) == (r.minX .. (r.maxX - 1)) \X (r.minY .. (r.maxY - 1))

\* image.NewRGBA followed by the fill that crearImagenTalonario applies:
\* opaque black, covered by the scaled base image when there is one
NuevaImagen(cfg, base) ==
    LET r == Rect(cfg.AnchoTalonario, cfg.AltoTalonario)
    IN  [rect   |-> r,
         pix    |-> [p \in Puntos(r) |-> IF base = "nil" THEN "negro" ELSE "base"],
         textos |-> <<>>]

\* Point.In(Rect), the test (*image.RGBA).Set makes before it writes
EnRect(r, x, y) ==
    /\ r.minX <= x /\ x < r.maxX
    /\ r.minY <= y /\ y < r.maxY

\* the (*image.RGBA).Set calls of one loop nest, all with the same colour:
\* a point outside the rectangle of the image is ignored
SetTodos(im, pts, col) ==
    [im EXCEPT !.pix = [p \in { q \in pts : EnRect(im.rect, q[1], q[2]) } |-> col] @@ @]

\* dibujarLineaSuperior: the points its loops hand to Set, r = img.Bounds()
puntosLineaSuperior(cfg, r, x, y) ==
    LET largo == cfg.AnchoTalonario - cfg.MargenIzquierdo - cfg.MargenDerecho
    IN  { <<x + q[1], y + q[2]>> :
            q \in { c \in (0 .. (largo - 1)) \X (0 .. (cfg.AnchoLineas - 1)) :
                      /\ ~(x + c[1] >= r.maxX)
                      /\ y + c[2] < r.maxY } }

dibujarLineaSuperior(cfg, im, x, y, col) ==
    SetTodos(im, puntosLineaSuperior(cfg, im.rect, x, y), col)

\* the bottom stroke clipped as a whole: dropped when its lowest row is outside
puntosBordeInferiorEntero(cfg, r, x, y, ancho, alto) ==
    { <<x + q[1], y + alto - 1 - q[2]>> :
        q \in { c \in (0 .. (ancho - 1)) \X (0 .. (cfg.AnchoLineas - 1)) :
                  /\ ~(x + c[1] >= r.maxX)
                  /\ y + alto - 1 < r.maxY } }

\* dibujarRectangulo, first loop: the stroke along the bottom edge
puntosBordeInferior(cfg, r, x, y, ancho, alto) ==
    { <<x + q[1], y + alto - 1 - q[2]>> :
        q \in { c \in (0 .. (ancho - 1)) \X (0 .. (cfg.AnchoLineas - 1)) :
                  /\ ~(x + c[1] >= r.maxX)
                  /\ y + alto - 1 - c[2] < r.maxY } }

\* dibujarRectangulo, second loop: the strokes along the left and right edges
puntosBordeIzquierdo(cfg, r, x, y, ancho, alto) ==
    { <<x + q[2], y + q[1]>> :
        q \in { c \in (0 .. (alto - 1)) \X (0 .. (cfg.AnchoLineas - 1)) :
                  /\ ~(y + c[1] >= r.maxY)
                  /\ x + c[2] < r.maxX } }

\* the right stroke one column too far to the right (the -1 forgotten)
puntosBordeDerechoCorrido(cfg, r, x, y, ancho, alto) ==
    { <<x + ancho - q[2], y + q[1]>> :
        q \in { c \in (0 .. (alto - 1)) \X (0 .. (cfg.AnchoLineas - 1)) :
                  /\ ~(y + c[1] >= r.maxY)
                  /\ x + ancho - c[2] < r.maxX } }

puntosBordeDerecho(cfg, r, x, y, ancho, alto) ==
    { <<x + ancho - 1 - q[2], y + q[1]>> :
        q \in { c \in (0 .. (alto - 1)) \X (0 .. (cfg.AnchoLineas - 1)) :
                  /\ ~(y + c[1] >= r.maxY)
                  /\ x + ancho - 1 - c[2] < r.maxX } }

\* every point dibujarRectangulo hands to Set
puntosRectangulo(cfg, r, x, y, ancho, alto) ==
    puntosBordeInferior(cfg, r, x, y, ancho, alto)
      \cup puntosBordeIzquierdo(cfg, r, x, y, ancho, alto)
      \cup puntosBordeDerecho(cfg, r, x, y, ancho, alto)

dibujarRectangulo(cfg, im, x, y, ancho, alto, col) ==
    SetTodos(im, puntosRectangulo(cfg, im.rect, x, y, ancho, alto), col)

\* dibujarTexto, as called by dibujarBoleta: the strings handed to the font
\* drawer, one per ticket when OrientacionBoletas is 0, 1 or 2
textosBoletas(cfg, boletas) ==
    IF cfg.OrientacionBoletas \in {0, 1, 2}
    THEN [k \in 1 .. Len(boletas) |-> boletas[k].Formateado]
    ELSE <<>>

----------------------------------------------------------------------------
(* Grid layout: crearImagenTalonario *)

calcularFilas(cfg, n) == GoDiv(n + cfg.BoletasPorFila - 1, cfg.BoletasPorFila)

\* the cell width computed without the right margin
calcularAnchoBoletaSinMargen(cfg) ==
    GoDiv(cfg.AnchoTalonario - cfg.MargenIzquierdo, cfg.BoletasPorFila)

calcularAnchoBoleta(cfg) ==
    GoDiv(cfg.AnchoTalonario - cfg.MargenDerecho - cfg.MargenIzquierdo, cfg.BoletasPorFila)

calcularAltoBoleta(cfg, filas) ==
    GoDiv(cfg.AltoTalonario - cfg.MargenSuperior - cfg.MargenInferior, filas)

\* the cell of the ticket with 0-based index k
celda(cfg, k, anchoBoleta, altoBoleta) ==
    LET fila    == GoDiv(k, cfg.BoletasPorFila)
        columna == GoMod(k, cfg.BoletasPorFila)
    IN  [x     |-> (columna * anchoBoleta) + cfg.MargenIzquierdo,
         y     |-> fila * altoBoleta + cfg.MargenSuperior,
         ancho |-> anchoBoleta,
         alto  |-> altoBoleta]

\* crearImagenTalonario: the canvas returned and the locals it computed
\* (BoletasPorFila # 0 and at least one ticket: see RenderizarPagina).
\* The separator line and the border of every cell (dibujarBoleta calls
\* dibujarRectangulo) are painted with ColorBorde, so their Set calls are
\* applied together.
crearImagenTalonario(cfg, base, tal) ==
    LET filas       == calcularFilas(cfg, Len(tal.Boletas))
        anchoBoleta == calcularAnchoBoleta(cfg)
        altoBoleta  == calcularAltoBoleta(cfg, filas)
        fondo       == NuevaImagen(cfg, base)
        celdas      == [k \in 1 .. Len(tal.Boletas) |->
                          celda(cfg, k - 1, anchoBoleta, altoBoleta)]
        limites     == Rect(cfg.AnchoTalonario, cfg.AltoTalonario)
        bordes      == puntosLineaSuperior(cfg, limites, cfg.MargenIzquierdo,
                                           cfg.MargenSuperior)
                       \cup UNION { puntosRectangulo(cfg, limites, c.x, c.y, c.ancho, c.alto) :
                                    c \in { celdas[k] : k \in 1 .. Len(tal.Boletas) } }
    IN  [img         |-> [SetTodos(fondo, bordes, "borde") EXCEPT
                            !.textos = textosBoletas(cfg, tal.Boletas)],
         filas       |-> filas,
         anchoBoleta |-> anchoBoleta,
         altoBoleta  |-> altoBoleta,
         celdas      |-> celdas]

----------------------------------------------------------------------------
(* The configurations the model runs on *)

NumerosMinimos == {-1, 8}            \* NumeroMinimo
\* <<superior, inferior, izquierdo, derecho>>: every combination of 0 and 3
\* (two margins of 3 leave a negative printable extent), and each margin
\* negative in turn
Margenes       ==
    { m \in [1 .. 4 -> {-1, 0, 3}] :
        \/ \A k \in 1 .. 4 : m[k] >= 0
        \/ \E k \in 1 .. 4 : m[k] < 0 /\ \A j \in (1 .. 4) \ {k} : m[j] = 0 }
Anchos         == {5}                \* AnchoTalonario
Altos          == {7}                \* AltoTalonario
ImagenesBase   == {"", "Base.png"}   \* ImagenBase ("" = no base image)

NuevaConfig(base, fila, mn, mx, boletas, paginas, ancho, alto, ms, mi, mz, md, lineas) ==
    [ImagenBase         |-> base,
     BoletasPorFila     |-> fila,
     NumeroMinimo       |-> mn,
     NumeroMaximo       |-> mx,
     BoletasPorPagina   |-> boletas,
     CantidadPaginas    |-> paginas,
     AnchoTalonario     |-> ancho,
     AltoTalonario      |-> alto,
     MargenSuperior     |-> ms,
     MargenInferior     |-> mi,
     MargenIzquierdo    |-> mz,
     MargenDerecho      |-> md,
     AnchoLineas        |-> lineas,
     OrientacionBoletas |-> 0]

SinImagen == [rect |-> Rect(0, 0), pix |-> [p \in {} |-> "negro"], textos |-> <<>>]

SinLayout == [filas |-> 0, anchoBoleta |-> 0, altoBoleta |-> 0, celdas |-> <<>>]

SinArgs == [x |-> 0, y |-> 0, ancho |-> 0, alto |-> 0]

\* the state before main calls NewGeneradorTalonarios
Init ==
    /\ \E base \in ImagenesBase, fila \in 0 .. MaxFila, mn \in NumerosMinimos,
          d \in -1 .. MaxRango, boletas \in 0 .. MaxBoletas, paginas \in 0 .. MaxPaginas,
          ancho \in Anchos, alto \in Altos,
          m \in Margenes :
            config = NuevaConfig(base, fila, mn, mn + d, boletas, paginas,
                                 ancho, alto, m[1], m[2], m[3], m[4], 1)
    /\ pc = "main"
    /\ err = ""
    /\ numerosUsados = {}
    /\ imagenBase = "nil"
    /\ digitosFormato = 0
    /\ i = 0
    /\ talonario = [ID |-> 0, Boletas |-> <<>>]
    /\ img = SinImagen
    /\ layout = SinLayout
    /\ archivos = <<>>
    /\ emitidos = <<>>
    /\ creados = <<>>
    /\ renderizados = <<>>
    /\ intentos = <<>>
    /\ args = SinArgs

----------------------------------------------------------------------------
(* Actions *)

\* NewGeneradorTalonarios, and on success the entry of GenerarTodos (i := 1).
\* Loading the base image and creating the output folder succeed or fail
\* as the file system decides.
NewGeneradorTalonarios ==
    /\ pc = "main"
    /\ numerosUsados' = {}
    /\ digitosFormato' = calcularDigitos(config)
    /\ LET e == validarConfig(config)
       IN  IF e # ""
           THEN /\ pc' = "fatal"
                /\ err' = e
                /\ UNCHANGED <<imagenBase, i>>
           ELSE \E cargaOk \in BOOLEAN, carpetaOk \in BOOLEAN :
                  IF config.ImagenBase # "" /\ ~cargaOk
                  THEN /\ pc' = "fatal"
                       /\ err' = ErrImagen
                       /\ UNCHANGED <<imagenBase, i>>
                  ELSE /\ imagenBase' = IF config.ImagenBase # "" THEN "cargada" ELSE "nil"
                       /\ IF ~carpetaOk
                          THEN /\ pc' = "fatal"
                               /\ err' = ErrCarpeta
                               /\ UNCHANGED i
                          ELSE /\ pc' = "loop"
                               /\ err' = ""
                               /\ i' = 1
    /\ UNCHANGED <<config, talonario, img, layout, archivos, emitidos, creados,
                   renderizados, intentos, args>>

\* GenerarTodos with the used numbers forgotten at each new page
GenerarTodosReinicia ==
    /\ pc = "loop"
    /\ IF i <= config.CantidadPaginas
       THEN /\ creados' = Append(creados, i)
            /\ talonario' = [ID |-> i, Boletas |-> <<>>]
            /\ numerosUsados' = {}
            /\ pc' = IF config.BoletasPorPagina < 0 THEN "panic"
                     ELSE IF config.BoletasPorPagina = 0 THEN "render"
                     ELSE "alloc"
            /\ UNCHANGED err
       ELSE /\ pc' = "done"
            /\ err' = ""
            /\ UNCHANGED <<creados, talonario, numerosUsados>>
    /\ UNCHANGED <<config, imagenBase, digitosFormato, i, img,
                   layout, archivos, emitidos, renderizados, intentos, args>>

\* GenerarTodos with the loop condition i < CantidadPaginas
GenerarTodosUnaMenos ==
    /\ pc = "loop"
    /\ IF i < config.CantidadPaginas
       THEN /\ creados' = Append(creados, i)
            /\ talonario' = [ID |-> i, Boletas |-> <<>>]
            /\ pc' = IF config.BoletasPorPagina < 0 THEN "panic"
                     ELSE IF config.BoletasPorPagina = 0 THEN "render"
                     ELSE "alloc"
            /\ UNCHANGED err
       ELSE /\ pc' = "done"
            /\ err' = ""
            /\ UNCHANGED <<creados, talonario>>
    /\ UNCHANGED <<config, numerosUsados, imagenBase, digitosFormato, i, img,
                   layout, archivos, emitidos, renderizados, intentos, args>>

\* GenerarTodos, loop head: the next page begins (crearTalonario allocates its
\* slice), or the loop is over and nil is returned
GenerarTodos ==
    /\ pc = "loop"
    /\ IF i <= config.CantidadPaginas
       THEN /\ creados' = Append(creados, i)
            /\ talonario' = [ID |-> i, Boletas |-> <<>>]
            /\ pc' = IF config.BoletasPorPagina < 0 THEN "panic"
                     ELSE IF config.BoletasPorPagina = 0 THEN "render"
                     ELSE "alloc"
            /\ UNCHANGED err
       ELSE /\ pc' = "done"
            /\ err' = ""
            /\ UNCHANGED <<creados, talonario>>
    /\ UNCHANGED <<config, numerosUsados, imagenBase, digitosFormato, i, img,
                   layout, archivos, emitidos, renderizados, intentos, args>>

\* the values rand.Intn(max-min+1) + min can return
sorteo(cfg) ==
    { r + cfg.NumeroMinimo : r \in 0 .. (cfg.NumeroMaximo - cfg.NumeroMinimo) }

\* one iteration of the loop of generarNumeroAleatorio: a used number is
\* drawn again; an unused one is recorded, returned and stored by crearTalonario
\* with its formatted text
generarNumeroAleatorio ==
    /\ pc = "alloc"
    /\ IF config.NumeroMaximo - config.NumeroMinimo + 1 <= 0
       THEN /\ pc' = "panic"
            /\ UNCHANGED <<numerosUsados, talonario, emitidos>>
       ELSE \E n \in sorteo(config) :
              IF n \in numerosUsados
              THEN UNCHANGED <<pc, numerosUsados, talonario, emitidos>>
              ELSE /\ numerosUsados' = numerosUsados \cup {n}
                   /\ emitidos' = Append(emitidos, n)
                   /\ talonario' = [talonario EXCEPT !.Boletas =
                         Append(@, [Numero |-> n,
                                    Formateado |-> formatearNumero(digitosFormato, n)])]
                   /\ pc' = IF Len(talonario.Boletas) + 1 >= config.BoletasPorPagina
                            THEN "render" ELSE "alloc"
    /\ UNCHANGED <<config, err, imagenBase, digitosFormato, i, img, layout,
                   archivos, creados, renderizados, intentos, args>>

\* crearImagenTalonario on the finished talonario; an integer division by
\* zero panics
RenderizarPagina ==
    /\ pc = "render"
    /\ IF config.BoletasPorFila = 0
          \/ calcularFilas(config, Len(talonario.Boletas)) = 0
       THEN /\ pc' = "panic"
            /\ UNCHANGED <<img, layout, renderizados>>
       ELSE \E r \in {crearImagenTalonario(config, imagenBase, talonario)} :
                /\ img' = r.img
                /\ layout' = [filas |-> r.filas, anchoBoleta |-> r.anchoBoleta,
                              altoBoleta |-> r.altoBoleta, celdas |-> r.celdas]
                /\ renderizados' = Append(renderizados, talonario.ID)
                /\ pc' = "save"
    /\ UNCHANGED <<config, err, numerosUsados, imagenBase, digitosFormato, i,
                   talonario, archivos, emitidos, creados, intentos, args>>

\* png.Encode refuses an image without pixels; otherwise the write succeeds
\* or fails as the file system decides
puedeCodificar(im) ==
    im.rect.maxX - im.rect.minX > 0 /\ im.rect.maxY - im.rect.minY > 0

\* the loop body with a failed write logged and the loop carried on
GuardarPaginaContinua ==
    /\ pc = "save"
    /\ intentos' = Append(intentos, i)
    /\ \E ok \in BOOLEAN :
         IF ok /\ puedeCodificar(img)
         THEN /\ archivos' = Append(archivos, [id |-> i, img |-> img])
              /\ i' = i + 1
              /\ pc' = "loop"
              /\ UNCHANGED err
         ELSE /\ err' = ErrGuardar
              /\ i' = i + 1
              /\ pc' = "loop"
              /\ UNCHANGED archivos
    /\ UNCHANGED <<config, numerosUsados, imagenBase, digitosFormato, talonario,
                   img, layout, emitidos, creados, renderizados, args>>

\* guardarImagen and the rest of the loop body of GenerarTodos
GuardarPagina ==
    /\ pc = "save"
    /\ intentos' = Append(intentos, i)
    /\ \E ok \in BOOLEAN :
         IF ok /\ puedeCodificar(img)
         THEN /\ archivos' = Append(archivos, [id |-> i, img |-> img])
              /\ i' = i + 1
              /\ pc' = "loop"
              /\ UNCHANGED err
         ELSE /\ err' = ErrGuardar
              /\ pc' = "fatal"
              /\ UNCHANGED <<archivos, i>>
    /\ UNCHANGED <<config, numerosUsados, imagenBase, digitosFormato, talonario,
                   img, layout, emitidos, creados, renderizados, args>>

Next ==
    \/ NewGeneradorTalonarios
    \/ GenerarTodos
    \/ generarNumeroAleatorio
    \/ RenderizarPagina
    \/ GuardarPagina

Spec == Init /\ [][Next]_vars

\* a draw that returns: with an unused number left, one is eventually drawn
Acierto == generarNumeroAleatorio /\ numerosUsados' # numerosUsados

\* the allocation runs: every range and every count, one page geometry
InitAsignacion ==
    /\ Init
    /\ config.ImagenBase = ""
    /\ config.MargenSuperior = 0 /\ config.MargenInferior = 0
    /\ config.MargenIzquierdo = 0 /\ config.MargenDerecho = 0

FairSpec == InitAsignacion /\ [][Next]_vars /\ WF_vars(Next) /\ WF_vars(Acierto)

----------------------------------------------------------------------------
(* The drawing primitives applied to arbitrary arguments *)

InitDibujo ==
    /\ \E mz \in 0 .. 1, md \in 0 .. 1, t \in 0 .. MaxGrosor :
         config = NuevaConfig("", 1, 0, 0, 1, 1, CanvasAncho, CanvasAlto, 0, 0, mz, md, t)
    /\ args \in [x : -1 .. CanvasAncho, y : -1 .. CanvasAlto,
                 ancho : -1 .. (CanvasAncho + 1), alto : -1 .. (CanvasAlto + 1)]
    /\ img = NuevaImagen(config, "nil")
    /\ pc = "dibujo"
    /\ err = ""
    /\ numerosUsados = {}
    /\ imagenBase = "nil"
    /\ digitosFormato = calcularDigitos(config)
    /\ i = 0
    /\ talonario = [ID |-> 0, Boletas |-> <<>>]
    /\ layout = SinLayout
    /\ archivos = <<>>
    /\ emitidos = <<>>
    /\ creados = <<>>
    /\ renderizados = <<>>
    /\ intentos = <<>>

sinCambiosDibujo ==
    UNCHANGED <<config, err, numerosUsados, imagenBase, digitosFormato, i, talonario,
                layout, archivos, emitidos, creados, renderizados, intentos, args>>

PintarRectangulo ==
    /\ pc = "dibujo"
    /\ img' = dibujarRectangulo(config, img, args.x, args.y, args.ancho, args.alto, "borde")
    /\ pc' = "rectangulo"
    /\ sinCambiosDibujo

PintarLinea ==
    /\ pc = "dibujo"
    /\ img' = dibujarLineaSuperior(config, img, args.x, args.y, "borde")
    /\ pc' = "linea"
    /\ sinCambiosDibujo

NextDibujo == PintarRectangulo \/ PintarLinea

SpecDibujo == InitDibujo /\ [][NextDibujo]_vars

----------------------------------------------------------------------------
(* Properties *)

Rango == config.NumeroMinimo .. config.NumeroMaximo

TotalNumeros == config.NumeroMaximo - config.NumeroMinimo + 1

NumerosNecesarios == config.BoletasPorPagina * config.CantidadPaginas

Hasta(n) == [k \in 1 .. n |-> k]

Valores(seq) == { seq[k] : k \in 1 .. Len(seq) }

\* C1: every number returned by generarNumeroAleatorio lies in
\* [NumeroMinimo, NumeroMaximo] and differs from every number returned earlier
\* in the run, on whichever page; numerosUsados is a subset of the range
\* whose size is the number of tickets issued so far.
C1_NumerosUnicosEnRango ==
    /\ \A k \in 1 .. Len(emitidos) : emitidos[k] \in Rango
    /\ \A j, k \in 1 .. Len(emitidos) : j # k => emitidos[j] # emitidos[k]
    /\ numerosUsados \subseteq Rango
    /\ Cardinality(numerosUsados) = Len(emitidos)
    /\ Len(emitidos) = IF creados = <<>> THEN 0
                       ELSE (Len(creados) - 1) * config.BoletasPorPagina
                            + Len(talonario.Boletas)

\* two pages written, four numbers issued over them
C1_Witness == Len(archivos) = 2 /\ Len(emitidos) = 4

\* C2: when BoletasPorPagina x CantidadPaginas exceeds the size of the range,
\* the constructor returns the capacity error with no number allocated and no
\* page created, rendered or written; when the product fits and the other
\* fields are valid, validation raises no error.
C2_CapacidadValidadaAntes ==
    pc # "main" =>
      /\ NumerosNecesarios > TotalNumeros =>
           /\ pc = "fatal" /\ err = ErrNumeros
           /\ numerosUsados = {} /\ emitidos = <<>> /\ creados = <<>>
           /\ renderizados = <<>> /\ intentos = <<>> /\ archivos = <<>>
      /\ ( /\ NumerosNecesarios <= TotalNumeros
           /\ config.BoletasPorPagina > 0 /\ config.CantidadPaginas > 0
           /\ config.BoletasPorFila > 0
           /\ config.MargenSuperior >= 0 /\ config.MargenInferior >= 0
           /\ config.MargenIzquierdo >= 0 /\ config.MargenDerecho >= 0 )
         => err \notin ErroresValidacion

\* rejected although one page alone would fit in the range
C2_Witness ==
    /\ pc = "fatal" /\ err = ErrNumeros
    /\ config.CantidadPaginas > 1
    /\ config.BoletasPorPagina > 0
    /\ config.BoletasPorPagina <= TotalNumeros

\* what GenerarTodos leaves behind when it returns nil
ResultadoCompleto ==
    /\ Len(archivos) = config.CantidadPaginas
    /\ \A k \in 1 .. Len(archivos) :
         /\ archivos[k].id = k
         /\ Len(archivos[k].img.textos) = config.BoletasPorPagina
    /\ creados = Hasta(config.CantidadPaginas)
    /\ renderizados = Hasta(config.CantidadPaginas)
    /\ intentos = Hasta(config.CantidadPaginas)
    /\ Len(emitidos) = NumerosNecesarios
    /\ Cardinality(Valores(emitidos)) = NumerosNecesarios
    /\ Cardinality(UNION { Valores(archivos[k].img.textos) : k \in 1 .. Len(archivos) })
         = NumerosNecesarios

\* C3: GenerarTodos terminates (with nil, or with the error of a failed
\* write), and when it returns nil exactly CantidadPaginas pages have been
\* written, in the order 1..CantidadPaginas, each with BoletasPorPagina
\* tickets, BoletasPorPagina x CantidadPaginas distinct numbers in all.
C3_GenerarTodosCompleta ==
    /\ [](pc = "done" => ResultadoCompleto)
    /\ <>(pc = "done" \/ err # "")

C3_Witness ==
    pc = "done" /\ config.CantidadPaginas = 2 /\ config.BoletasPorPagina = 2

\* the tickets of the talonario being built or rendered
BoletasActuales == Valores(talonario.Boletas)

\* C4: every formatted number has exactly digitosFormato characters,
\* digitosFormato being the number of base-10 digits of NumeroMaximo, and is
\* the number left-padded with '0'.
C4_LongitudFija ==
    \A b \in BoletasActuales :
         /\ digitosFormato = Len(Digitos(Abs(config.NumeroMaximo)))
         /\ Len(b.Formateado) = digitosFormato
         /\ b.Formateado = Ceros(digitosFormato - Len(Itoa(b.Numero))) \o Itoa(b.Numero)

\* C5: once the write of page i has failed GenerarTodos has returned the
\* error: pages 1..i were created and rendered and no other, pages 1..i-1
\* are the files written, guardarImagen was called once per page (no retry),
\* and no number was allocated beyond those of pages 1..i.
C5_FalloDeEscrituraDetiene ==
    err = ErrGuardar =>
      /\ pc = "fatal"
      /\ creados = Hasta(i)
      /\ renderizados = Hasta(i)
      /\ intentos = Hasta(i)
      /\ Len(archivos) = i - 1
      /\ \A k \in 1 .. Len(archivos) : archivos[k].id = k
      /\ Len(emitidos) = i * config.BoletasPorPagina
      /\ Cardinality(numerosUsados) = i * config.BoletasPorPagina

\* the write of the first of two pages fails
C5_Witness == err = ErrGuardar /\ i = 1 /\ config.CantidadPaginas = 2

(* The strokes of the drawing primitives on an unbounded plane *)

EnBordeSuperior(p, a, t) ==
    /\ a.x <= p[1] /\ p[1] <= a.x + a.ancho - 1
    /\ a.y <= p[2] /\ p[2] <= a.y + t - 1

EnBordeInferior(p, a, t) ==
    /\ a.x <= p[1] /\ p[1] <= a.x + a.ancho - 1
    /\ a.y + a.alto - t <= p[2] /\ p[2] <= a.y + a.alto - 1

EnBordeIzquierdo(p, a, t) ==
    /\ a.x <= p[1] /\ p[1] <= a.x + t - 1
    /\ a.y <= p[2] /\ p[2] <= a.y + a.alto - 1

EnBordeDerecho(p, a, t) ==
    /\ a.x + a.ancho - t <= p[1] /\ p[1] <= a.x + a.ancho - 1
    /\ a.y <= p[2] /\ p[2] <= a.y + a.alto - 1

EnTrazos(p, a, t) ==
    EnBordeInferior(p, a, t) \/ EnBordeIzquierdo(p, a, t) \/ EnBordeDerecho(p, a, t)

EnLinea(p, a, largo, t) ==
    /\ a.x <= p[1] /\ p[1] <= a.x + largo - 1
    /\ a.y <= p[2] /\ p[2] <= a.y + t - 1

Lienzo == Puntos(Rect(config.AnchoTalonario, config.AltoTalonario))

\* C6: whatever x, y, width, height and thickness, dibujarRectangulo and
\* dibujarLineaSuperior leave a canvas with exactly its own pixels, in which
\* the pixels of the strokes (for the rectangle: its bottom, left and right
\* strokes) that fall inside the canvas have the border colour and every
\* other pixel keeps its colour.
C6_RecorteSilencioso ==
    /\ pc \in {"rectangulo", "linea"} => DOMAIN img.pix = Lienzo
    /\ pc = "rectangulo" =>
         \A p \in Lienzo :
           img.pix[p] = IF EnTrazos(p, args, config.AnchoLineas) THEN "borde" ELSE "negro"
    /\ pc = "linea" =>
         \A p \in Lienzo :
           img.pix[p] = IF EnLinea(p, args,
                                   config.AnchoTalonario - config.MargenIzquierdo
                                     - config.MargenDerecho,
                                   config.AnchoLineas)
                        THEN "borde" ELSE "negro"

\* a rectangle sticking out on the left and below, part of it painted
C6_Witness ==
    /\ pc = "rectangulo"
    /\ args.x < 0
    /\ args.y + args.alto > config.AltoTalonario
    /\ \E p \in Lienzo : img.pix[p] = "borde"

\* a cell inside the canvas drawn with a thickness 0 < 2t <= min(w, h)
CeldaDentro ==
    /\ pc = "rectangulo"
    /\ args.x >= 0 /\ args.y >= 0
    /\ args.x + args.ancho <= config.AnchoTalonario
    /\ args.y + args.alto <= config.AltoTalonario
    /\ config.AnchoLineas > 0
    /\ 2 * config.AnchoLineas <= Min2(args.ancho, args.alto)

EnRectangulo(p, a) ==
    /\ a.x <= p[1] /\ p[1] <= a.x + a.ancho - 1
    /\ a.y <= p[2] /\ p[2] <= a.y + a.alto - 1

\* C9 as stated: the top, bottom, left and right strokes are all painted and
\* nothing outside the rectangle is.
C9_CuatroBordes ==
    CeldaDentro =>
      \A p \in Lienzo :
        /\ ( EnBordeSuperior(p, args, config.AnchoLineas)
             \/ EnTrazos(p, args, config.AnchoLineas) ) => img.pix[p] = "borde"
        /\ ~EnRectangulo(p, args) => img.pix[p] = "negro"

\* C9 (amended): dibujarRectangulo paints the bottom t rows, the left t
\* columns and the right t columns of the rectangle and no other pixel: the
\* top edge is not stroked, and nothing outside the rectangle is painted.
C9_TresBordes ==
    CeldaDentro =>
      \A p \in Lienzo :
        /\ img.pix[p] = "borde" <=> EnTrazos(p, args, config.AnchoLineas)
        /\ ~EnRectangulo(p, args) => img.pix[p] = "negro"

\* a pixel of the top edge keeps the background colour
C9_Witness ==
    /\ CeldaDentro
    /\ \E p \in Lienzo :
         EnBordeSuperior(p, args, config.AnchoLineas) /\ img.pix[p] = "negro"

AnchoImprimible ==
    config.AnchoTalonario - config.MargenIzquierdo - config.MargenDerecho

AltoImprimible ==
    config.AltoTalonario - config.MargenSuperior - config.MargenInferior

\* C7: with a non-negative printable width and height, the page rendered has
\* rows = ceil(tickets / BoletasPorFila), cell width = floor(printable width /
\* BoletasPorFila), cell height = floor(printable height / rows), ticket k
\* (0-based) at (MargenIzquierdo + (k mod BoletasPorFila) x width,
\* MargenSuperior + (k div BoletasPorFila) x height), and every cell ends at
\* or before AnchoTalonario - MargenDerecho and AltoTalonario - MargenInferior.
C7_GeometriaDeLaCuadricula ==
    (renderizados # <<>> /\ AnchoImprimible >= 0 /\ AltoImprimible >= 0) =>
      LET n == Len(layout.celdas)
      IN  /\ n = config.BoletasPorPagina
          /\ layout.filas * config.BoletasPorFila >= n
          /\ (layout.filas - 1) * config.BoletasPorFila < n
          /\ layout.anchoBoleta = AnchoImprimible \div config.BoletasPorFila
          /\ layout.altoBoleta = AltoImprimible \div layout.filas
          /\ \A k \in 1 .. n :
               LET c == layout.celdas[k]
               IN  /\ c.x = config.MargenIzquierdo
                              + ((k - 1) % config.BoletasPorFila) * layout.anchoBoleta
                   /\ c.y = config.MargenSuperior
                              + ((k - 1) \div config.BoletasPorFila) * layout.altoBoleta
                   /\ c.ancho = layout.anchoBoleta /\ c.alto = layout.altoBoleta
                   /\ c.x + c.ancho <= config.AnchoTalonario - config.MargenDerecho
                   /\ c.y + c.alto <= config.AltoTalonario - config.MargenInferior

\* two tickets in one row of a printable width that two does not divide
C7_Witness ==
    /\ renderizados # <<>>
    /\ AnchoImprimible >= 0 /\ AltoImprimible >= 0
    /\ Len(layout.celdas) = 2 /\ config.BoletasPorFila = 2
    /\ AnchoImprimible % 2 = 1
    /\ layout.celdas[2].x = config.MargenIzquierdo + layout.anchoBoleta

HayNumeroLibre == \E n \in Rango : n \notin numerosUsados

\* C8: whenever generarNumeroAleatorio is running some number of the range
\* is unused, and under fair draws every allocation returns.
C8_AsignacionRetorna ==
    /\ [](pc = "alloc" => HayNumeroLibre)
    /\ \A k \in 0 .. (MaxBoletas * MaxPaginas) :
         (pc = "alloc" /\ Len(emitidos) = k) ~> (Len(emitidos) > k)

\* the last allocation of a run that uses the whole range
C8_Witness ==
    /\ pc = "alloc"
    /\ TotalNumeros >= 2
    /\ Cardinality(numerosUsados) = TotalNumeros - 1

\* the constructor returned a generator
GeneradorCreado == pc # "main" /\ err \notin (ErroresValidacion \cup {ErrImagen, ErrCarpeta})

\* C10: a generator returned without error has NumeroMinimo <= NumeroMaximo
\* and positive BoletasPorPagina, CantidadPaginas and BoletasPorFila; the row
\* count is at least 1 and no division or random draw of the run has a zero
\* or negative operand (nothing panics).
C10_OperandosPositivos ==
    GeneradorCreado =>
      /\ config.NumeroMinimo <= config.NumeroMaximo
      /\ config.BoletasPorPagina > 0
      /\ config.CantidadPaginas > 0
      /\ config.BoletasPorFila > 0
      /\ TotalNumeros >= 1
      /\ pc # "panic"
      /\ pc = "render" => calcularFilas(config, Len(talonario.Boletas)) >= 1
      /\ renderizados # <<>> => layout.filas >= 1

\* a page laid out in two rows
C10_Witness == pc = "save" /\ layout.filas = 2

====
